---- MODULE Spec2Model ----
(***************************************************************************)
(* Pool snapshot resolution (curvesim.pool_data.queries.metadata and       *)
(* curvesim.network.curve_prices) and the parameter grid sampler           *)
(* (curvesim.iterators.param_samplers.grid).                               *)
(*                                                                         *)
(* Python values are represented as follows:                               *)
(*   None / a value      <<>> / <<v>>                                      *)
(*   dict                a function from key strings to values            *)
(*   list                a sequence                                        *)
(*   address             [hex |-> n, checksummed |-> b]; to_checksum_address*)
(*                       sets checksummed                                  *)
(*   provider number v   the integer 10*v (one decimal digit); int()       *)
(*                       truncates it                                      *)
(*   int(b * 10**d)      [mant |-> m, exp |-> e], the integer m * 10^e     *)
(***************************************************************************)
EXTENDS Integers, Sequences, FiniteSets, TLC

VARIABLES
    pc,          \* position of from_address / get_metadata
    request,     \* the arguments of from_address: address, chain, end_ts
    now,         \* the value time() returned last
    stack,       \* the pool_snapshot invocations in progress, outermost first
    result,      \* what the last finished source attempt returned or raised
    data,        \* the snapshot dictionary held by from_address / get_metadata
    http,        \* the HTTP request issued last, if any
    invoked,     \* the arguments each source attempt was started with
    pool_template, \* Grid.pool_template
    dicts,       \* heap of the parameter dicts, indexed by reference
    param_grid,  \* Grid.param_grid: list of references into dicts
    position,    \* how many items Grid.param_generator has yielded
    yielded,     \* the (pool, params) pairs returned by Grid.__next__
    flat,        \* the value last returned by Grid.flat_grid
    built        \* the value of Grid.param_grid when __init__ returned

rvars == <<pc, request, now, stack, result, data, http, invoked>>
gvars == <<pool_template, dicts, param_grid, position, yielded, flat, built>>
vars == <<pc, request, now, stack, result, data, http, invoked,
          pool_template, dicts, param_grid, position, yielded, flat, built>>

----------------------------------------------------------------------------
(* Bounds *)

MaxCoins == 3        \* longest coin list a provider reports
MaxDepth == 1        \* deepest nesting of base pools a provider reports
MaxTicks == 1        \* seconds the clock can advance during one resolution
MaxVals == 2         \* most values per swept parameter in variable_params

----------------------------------------------------------------------------
(* Python helpers *)

None == <<>>

Some(v) == <<v>>

Min(a, b) == IF a < b THEN a ELSE b

\* int(v) for a provider number held with one decimal digit
PyInt(v) == v \div 10

\* int(b * 10**d) for a balance b held with one decimal digit
Scaled(b, d) ==
    IF d >= 1 THEN [mant |-> b, exp |-> d - 1]
              ELSE [mant |-> b \div 10, exp |-> 0]

\* int(usd * 10**18 / base) for prices held with one decimal digit
PriceRatio(usd, base) == [mant |-> (usd * 100) \div base, exp |-> 16]

to_checksum_address(a) == [a EXCEPT !.checksummed = TRUE]

----------------------------------------------------------------------------
(* curve_prices.py: chain aliases and the pool type table *)

CHAIN_ALIASES == ("mainnet" :> "ethereum") @@ ("matic" :> "polygon")

REVERSE_CHAIN_ALIASES ==
    [alias \in {CHAIN_ALIASES[c] : c \in DOMAIN CHAIN_ALIASES} |->
        CHOOSE chain \in DOMAIN CHAIN_ALIASES : CHAIN_ALIASES[chain] = alias]

_chain_from_alias(chain) ==
    IF chain \in DOMAIN CHAIN_ALIASES THEN CHAIN_ALIASES[chain] ELSE chain

\* the label without the reverse lookup
ChainLabel_supplied(chain) == chain

\* the "chain" entry of the returned dictionary
ChainLabel(chain) ==
    IF chain \notin DOMAIN REVERSE_CHAIN_ALIASES THEN chain
    ELSE REVERSE_CHAIN_ALIASES[chain]

pool_type_to_amm ==
    ("main" :> "stableswap") @@ ("crypto" :> "cryptoswap") @@
    ("factory" :> "stableswap") @@ ("factory_crypto" :> "cryptoswap") @@
    ("crvusd" :> "None") @@ ("factory_tricrypto" :> "cryptoswap") @@
    ("stableswapng" :> "stableswap") @@ ("twocryptong" :> "cryptoswap")

----------------------------------------------------------------------------
(* What the providers can answer *)

\* 0xEeeeeEeeeEeEeeEeEeEeeEEEeeeeEeeeeeeeEEeE
SENTINEL == [hex |-> 238, checksummed |-> TRUE]

\* 0xC02aaA39b223FE8D0A0e5C4F27eAD9083C756Cc2
WETH == [hex |-> 192, checksummed |-> TRUE]

SnapshotWindow == 24 * 60 * 60

\* the clock when from_address is called, and an end_ts a caller passes
ClockStart == SnapshotWindow + 1000

GivenEndTs == SnapshotWindow + 500

Chains == {"mainnet", "ethereum", "matic", "polygon", "arbitrum"}

ListedTags == DOMAIN pool_type_to_amm

AllTags == ListedTags \cup {"lending"}

Symbols == <<"DAI", "USDC", "USDT", "FRAX", "LUSD">>

TokenDecimals == <<18, 6, 0, 18, 6>>

Token(i) ==
    [symbol |-> Symbols[((i - 1) % 5) + 1],
     address |-> [hex |-> i, checksummed |-> FALSE],
     decimals |-> TokenDecimals[((i - 1) % 5) + 1]]

\* the native asset as a provider lists it: sentinel address in lower case
NativeCoin(symbol) ==
    [symbol |-> symbol,
     address |-> [SENTINEL EXCEPT !.checksummed = FALSE],
     decimals |-> 18]

\* variant 1 lists the native asset first under the placeholder symbol,
\* variant 2 lists it second under the symbol "ETH"
CoinList(variant, n) ==
    [i \in 1..n |->
        IF variant = 1 /\ i = 1 THEN NativeCoin("0xeeee")
        ELSE IF variant = 2 /\ i = 2 THEN NativeCoin("ETH")
        ELSE Token(i)]

PoolAddress(depth) == [hex |-> 100 + depth, checksummed |-> FALSE]

MetadataRow(provider, depth, tag, meta, variant, n) ==
    [provider |-> provider,
     name |-> "pool",
     pool_type |-> tag,
     metapool |-> meta,
     base_pool |-> PoolAddress(depth + 1),
     coins |-> CoinList(variant, n)]

\* pools/{chain}/{address}/metadata answers with all deployment fields set.
\* The answers vary the pool type of a plain two-coin pool, or the coin list
\* and the metapool flag of a factory pool.  A metapool's list holds its two
\* coins followed by the base pool's coins; base pools nest MaxDepth deep.
MetadataRows(provider, depth) ==
    { MetadataRow(provider, depth, tag, FALSE, 2, 2) : tag \in AllTags }
    \cup
    { MetadataRow(provider, depth, "factory", FALSE, variant, n) :
        variant \in 1..2, n \in 1..MaxCoins }
    \cup
    { MetadataRow(provider, depth, "factory", TRUE, variant, n) :
        variant \in 1..2, n \in {k \in 2..MaxCoins : depth < MaxDepth} }

\* one row of snapshots/{chain}/{address}
ParamRow(provider, fee_mul) ==
    [provider |-> provider,
     a |-> 2005, fee |-> 40000, offpeg_fee_multiplier |-> fee_mul,
     admin_fee |-> 50009, virtual_price |-> 10101,
     gamma |-> 145, fee_gamma |-> 230, mid_fee |-> 30, out_fee |-> 45,
     allowed_extra_profit |-> 20, adjustment_step |-> 15,
     ma_half_time |-> 6000, price_scale |-> <<10005>>,
     price_oracle |-> <<10017>>, xcp_profit |-> 10020,
     xcp_profit_a |-> 10010]

\* the rows of the registry and next-generation stableswap pools may carry
\* an off-peg fee multiplier
FeeMultipliers(tag) ==
    IF tag \in {"main", "stableswapng"}
    THEN {None, Some(200)} ELSE {None}

\* the answer of snapshots/{chain}/{address}, most recent row first
ParamLists(provider, tag) ==
    {<<>>} \cup
    { <<ParamRow(provider, fm)>> : fm \in FeeMultipliers(tag) } \cup
    { <<ParamRow(provider, fm), ParamRow(provider, None)>> :
        fm \in FeeMultipliers(tag) }

\* one row of snapshots/{chain}/{address}/tvl with n balances
BalanceRow(provider, n, ts) ==
    [provider |-> provider,
     balances |-> [i \in 1..n |-> 10 * i + 5],
     token_prices |-> [i \in 1..n |-> 20 * i],
     timestamp |-> 10 * ts + 5]

\* the answer of snapshots/{chain}/{address}/tvl for a pool whose metadata
\* lists ncoins coins: one balance too few, one per coin, or one too many
BalanceLists(provider, ts, ncoins) ==
    {<<>>} \cup
    { <<BalanceRow(provider, n, ts)>> : n \in (ncoins - 1)..(ncoins + 1) }

----------------------------------------------------------------------------
(* curve_prices.pool_snapshot: building the dictionary *)

\* the parameters with the test on fee_mul inverted
StableswapParams_inverted(latest_snapshot) ==
    LET fee_mul == latest_snapshot.offpeg_fee_multiplier
    IN  [A |-> PyInt(latest_snapshot.a),
         fee |-> PyInt(latest_snapshot.fee),
         fee_mul |-> IF fee_mul = None THEN Some(0) ELSE None,
         admin_fee |-> PyInt(latest_snapshot.admin_fee),
         virtual_price |-> PyInt(latest_snapshot.virtual_price)]

StableswapParams(latest_snapshot) ==
    LET fee_mul == latest_snapshot.offpeg_fee_multiplier
    IN  [A |-> PyInt(latest_snapshot.a),
         fee |-> PyInt(latest_snapshot.fee),
         fee_mul |-> IF fee_mul # None THEN Some(PyInt(fee_mul[1])) ELSE None,
         admin_fee |-> PyInt(latest_snapshot.admin_fee),
         virtual_price |-> PyInt(latest_snapshot.virtual_price)]

CryptoswapParams(latest_snapshot, latest_balances) ==
    LET prices == latest_balances.token_prices
        token_price_base == prices[1]
    IN  [A |-> PyInt(latest_snapshot.a),
         gamma |-> PyInt(latest_snapshot.gamma),
         fee_gamma |-> PyInt(latest_snapshot.fee_gamma),
         mid_fee |-> PyInt(latest_snapshot.mid_fee),
         out_fee |-> PyInt(latest_snapshot.out_fee),
         allowed_extra_profit |-> PyInt(latest_snapshot.allowed_extra_profit),
         adjustment_step |-> PyInt(latest_snapshot.adjustment_step),
         ma_half_time |-> PyInt(latest_snapshot.ma_half_time),
         price_scale |-> [i \in DOMAIN latest_snapshot.price_scale |->
                            PyInt(latest_snapshot.price_scale[i])],
         price_oracle |-> [i \in DOMAIN latest_snapshot.price_oracle |->
                            PyInt(latest_snapshot.price_oracle[i])],
         last_prices |-> [i \in 1..(Len(prices) - 1) |->
                            PriceRatio(prices[i + 1], token_price_base)],
         last_prices_timestamp |-> PyInt(latest_balances.timestamp),
         admin_fee |-> PyInt(latest_snapshot.admin_fee),
         xcp_profit |-> PyInt(latest_snapshot.xcp_profit),
         xcp_profit_a |-> PyInt(latest_snapshot.xcp_profit_a),
         virtual_price |-> PyInt(latest_snapshot.virtual_price)]

\* the coin list without the metapool slice
CoinsInPool_whole(pool_metadata) == pool_metadata.coins

\* pool_metadata["coins"][:2] for a metapool, the whole list otherwise
CoinsInPool(pool_metadata) ==
    IF pool_metadata.metapool
    THEN SubSeq(pool_metadata.coins, 1, Min(2, Len(pool_metadata.coins)))
    ELSE pool_metadata.coins

BuildCoins(coins_in_pool) ==
    [names |-> [i \in DOMAIN coins_in_pool |-> coins_in_pool[i].symbol],
     addresses |-> [i \in DOMAIN coins_in_pool |->
                        to_checksum_address(coins_in_pool[i].address)],
     decimals |-> [i \in DOMAIN coins_in_pool |-> coins_in_pool[i].decimals]]

\* zip(latest_balances["balances"], coins["decimals"]) stops at the shorter
BuildReserves(balances, decimals) ==
    LET n == Min(Len(balances), Len(decimals))
    IN  [by_coin |-> [i \in 1..n |-> Scaled(balances[i], 18)],
         unnormalized_by_coin |-> [i \in 1..n |-> Scaled(balances[i], decimals[i])]]

\* the providers whose answers a dictionary was built from
Providers(pool_metadata, latest_snapshot, latest_balances, basepool) ==
    {pool_metadata.provider, latest_snapshot.provider, latest_balances.provider}
    \cup (IF basepool = None THEN {} ELSE basepool[1].providers)

\* lines 199-273: the value pool_snapshot returns, or the exception it raises
BuildSnapshot(address, chain, end_ts, pool_metadata, row, tvl, basepool) ==
    LET latest_snapshot == row
        latest_balances == tvl
        coins == BuildCoins(CoinsInPool(pool_metadata))
        d == [name |-> pool_metadata.name,
              address |-> to_checksum_address(address),
              chain |-> ChainLabel(chain),
              symbol |-> pool_metadata.name,
              pool_type |-> pool_metadata.pool_type,
              params |-> << >>,
              coins |-> coins,
              reserves |-> BuildReserves(latest_balances.balances, coins.decimals),
              basepool |-> basepool,
              timestamp |-> end_ts,
              providers |-> Providers(pool_metadata, latest_snapshot,
                                      latest_balances, basepool)]
    IN  IF d.pool_type \notin DOMAIN pool_type_to_amm
        THEN [ok |-> FALSE, error |-> "KeyError"]
        ELSE IF pool_type_to_amm[d.pool_type] = "stableswap"
        THEN [ok |-> TRUE,
              data |-> [d EXCEPT !.params = StableswapParams(latest_snapshot)]]
        ELSE IF pool_type_to_amm[d.pool_type] = "cryptoswap"
        THEN IF Len(latest_balances.token_prices) = 0
             THEN [ok |-> FALSE, error |-> "IndexError"]
             ELSE [ok |-> TRUE,
                   data |-> [d EXCEPT !.params =
                        CryptoswapParams(latest_snapshot, latest_balances)]]
        ELSE [ok |-> FALSE, error |-> "ApiResultError"]

----------------------------------------------------------------------------
(* The subgraph source, which from_address tries first (section 4.3 of the *)
(* design: the same pipeline run against the other client)                 *)

SubgraphSnapshot(address, chain, end_ts, pool_metadata, row, tvl, basepool) ==
    LET latest_snapshot == row
        latest_balances == tvl
        coins == BuildCoins(CoinsInPool(pool_metadata))
        d == [name |-> pool_metadata.name,
              address |-> to_checksum_address(address),
              chain |-> chain,
              symbol |-> pool_metadata.name,
              pool_type |-> pool_metadata.pool_type,
              params |-> << >>,
              coins |-> coins,
              reserves |-> BuildReserves(latest_balances.balances, coins.decimals),
              basepool |-> basepool,
              timestamp |-> end_ts,
              providers |-> Providers(pool_metadata, latest_snapshot,
                                      latest_balances, basepool)]
        family == IF d.pool_type \in DOMAIN pool_type_to_amm
                  THEN pool_type_to_amm[d.pool_type] ELSE "None"
    IN  IF Len(latest_balances.balances) < Len(coins.decimals)
        THEN [ok |-> FALSE, error |-> "MalformedResponse"]
        ELSE IF family = "stableswap"
        THEN [ok |-> TRUE,
              data |-> [d EXCEPT !.params = StableswapParams(latest_snapshot)]]
        ELSE IF family = "cryptoswap"
        THEN IF Len(latest_balances.token_prices) = 0
             THEN [ok |-> FALSE, error |-> "MalformedResponse"]
             ELSE [ok |-> TRUE,
                   data |-> [d EXCEPT !.params =
                        CryptoswapParams(latest_snapshot, latest_balances)]]
        ELSE [ok |-> FALSE, error |-> "UnsupportedPoolFamily"]

----------------------------------------------------------------------------
(* Invocations of pool_snapshot *)

Top == stack[Len(stack)]

Depth == Len(stack) - 1

\* lines 175-181: entry of pool_snapshot; end_ts defaults to int(time())
EnterAt(time, provider, address, end_ts) ==
    [provider |-> provider,
     address |-> address,
     end_ts |-> IF end_ts = None THEN time ELSE end_ts[1],
     step |-> "metadata",
     pool_metadata |-> None,
     latest_snapshot |-> None,
     latest_balances |-> None,
     basepool |-> None]

Enter(provider, address, end_ts) == EnterAt(now, provider, address, end_ts)

snapshot_start(frame) == frame.end_ts - SnapshotWindow

\* the arguments a source attempt works with
Arguments(frame) ==
    [address |-> to_checksum_address(frame.address),
     chain |-> _chain_from_alias(request.chain),
     start_ts |-> snapshot_start(frame),
     end_ts |-> frame.end_ts]

\* an HTTP.get issued by the invocation on top of the stack
Request(kind) ==
    [provider |-> Top.provider,
     kind |-> kind,
     chain |-> _chain_from_alias(request.chain),
     address |-> to_checksum_address(Top.address),
     start |-> IF kind = "metadata" THEN None ELSE Some(snapshot_start(Top)),
     end |-> IF kind = "metadata" THEN None ELSE Some(Top.end_ts)]

\* the exception handling with the fallback call inside the try block
Raise_retried(error) ==
    /\ stack' = << >>
    /\ result' = [ok |-> FALSE, error |-> error, provider |-> Top.provider]
    /\ pc' = "except"

\* an exception leaves every pool_snapshot invocation in progress and
\* reaches from_address: line 38 catches it around the subgraph call only
Raise(error) ==
    /\ stack' = << >>
    /\ result' = [ok |-> FALSE, error |-> error, provider |-> Top.provider]
    /\ pc' = IF Top.provider = "subgraph" THEN "except" ELSE "raised"

\* a dictionary is returned to the caller: the enclosing pool_snapshot
\* (line 194) or from_address (lines 37 and 41)
Return(d) ==
    IF Len(stack) > 1
    THEN /\ stack' = [SubSeq(stack, 1, Len(stack) - 1) EXCEPT
                        ![Len(stack) - 1].basepool = Some(d),
                        ![Len(stack) - 1].step = "build"]
         /\ UNCHANGED <<result, pc>>
    ELSE /\ stack' = << >>
         /\ result' = [ok |-> TRUE, data |-> d, provider |-> Top.provider]
         /\ pc' = "fetched"

Running(provider, step) ==
    /\ stack # << >>
    /\ Top.provider = provider
    /\ Top.step = step

\* lines 125-138
_pool_metadata ==
    /\ Running("curve_prices", "metadata")
    /\ http' = Some(Request("metadata"))
    /\ \/ Raise("HTTPError")
       \/ Raise("ApiResultError")   \* a deployment field is None
       \/ \E m \in MetadataRows("curve_prices", Depth) :
            /\ stack' = [stack EXCEPT ![Len(stack)].pool_metadata = Some(m),
                                      ![Len(stack)].step = "parameters"]
            /\ UNCHANGED <<result, pc>>
    /\ UNCHANGED <<request, now, data, invoked, gvars>>

\* lines 141-155
_pool_parameters ==
    /\ Running("curve_prices", "parameters")
    /\ http' = Some(Request("parameters"))
    /\ \/ Raise("HTTPError")
       \/ \E rows \in ParamLists("curve_prices",
                                  Top.pool_metadata[1].pool_type) :
            IF rows = << >>
            THEN Raise("ApiResultError")
            ELSE /\ stack' = [stack EXCEPT
                                ![Len(stack)].latest_snapshot = Some(rows[1]),
                                ![Len(stack)].step = "balances"]
                 /\ UNCHANGED <<result, pc>>
    /\ UNCHANGED <<request, now, data, invoked, gvars>>

\* lines 158-172
_pool_balances ==
    /\ Running("curve_prices", "balances")
    /\ http' = Some(Request("balances"))
    /\ \/ Raise("HTTPError")
       \/ \E rows \in BalanceLists("curve_prices", snapshot_start(Top),
                                    Len(Top.pool_metadata[1].coins)) :
            IF rows = << >>
            THEN Raise("ApiResultError")
            ELSE /\ stack' = [stack EXCEPT
                                ![Len(stack)].latest_balances = Some(rows[1]),
                                ![Len(stack)].step = "branch"]
                 /\ UNCHANGED <<result, pc>>
    /\ UNCHANGED <<request, now, data, invoked, gvars>>

\* lines 190-194: a metapool resolves its base pool with the same end_ts
pool_snapshot_basepool ==
    /\ Running("curve_prices", "branch")
    /\ Top.pool_metadata[1].metapool
    /\ stack' = Append([stack EXCEPT ![Len(stack)].step = "awaiting"],
                       Enter("curve_prices", Top.pool_metadata[1].base_pool,
                             Some(Top.end_ts)))
    /\ UNCHANGED <<pc, request, now, result, data, http, invoked, gvars>>

\* lines 195-273
pool_snapshot ==
    /\ \/ Running("curve_prices", "branch") /\ ~Top.pool_metadata[1].metapool
       \/ Running("curve_prices", "build")
    /\ LET r == BuildSnapshot(Top.address, request.chain, Top.end_ts,
                              Top.pool_metadata[1], Top.latest_snapshot[1],
                              Top.latest_balances[1], Top.basepool)
       IN  IF r.ok THEN Return(r.data) ELSE Raise(r.error)
    /\ UNCHANGED <<request, now, data, http, invoked, gvars>>

----------------------------------------------------------------------------
(* The subgraph client's three calls and its assembly *)

fetchMetadata ==
    /\ Running("subgraph", "metadata")
    /\ http' = Some(Request("metadata"))
    /\ \/ Raise("DataUnavailable")
       \/ \E m \in MetadataRows("subgraph", Depth) :
            /\ stack' = [stack EXCEPT ![Len(stack)].pool_metadata = Some(m),
                                      ![Len(stack)].step = "parameters"]
            /\ UNCHANGED <<result, pc>>
    /\ UNCHANGED <<request, now, data, invoked, gvars>>

fetchParameters ==
    /\ Running("subgraph", "parameters")
    /\ http' = Some(Request("parameters"))
    /\ \E rows \in ParamLists("subgraph", Top.pool_metadata[1].pool_type) :
            IF rows = << >>
            THEN Raise("DataUnavailable")
            ELSE /\ stack' = [stack EXCEPT
                                ![Len(stack)].latest_snapshot = Some(rows[1]),
                                ![Len(stack)].step = "balances"]
                 /\ UNCHANGED <<result, pc>>
    /\ UNCHANGED <<request, now, data, invoked, gvars>>

fetchBalances ==
    /\ Running("subgraph", "balances")
    /\ http' = Some(Request("balances"))
    /\ \E rows \in BalanceLists("subgraph", snapshot_start(Top),
                                    Len(Top.pool_metadata[1].coins)) :
            IF rows = << >>
            THEN Raise("DataUnavailable")
            ELSE /\ stack' = [stack EXCEPT
                                ![Len(stack)].latest_balances = Some(rows[1]),
                                ![Len(stack)].step = "branch"]
                 /\ UNCHANGED <<result, pc>>
    /\ UNCHANGED <<request, now, data, invoked, gvars>>

resolveBasePool ==
    /\ Running("subgraph", "branch")
    /\ Top.pool_metadata[1].metapool
    /\ stack' = Append([stack EXCEPT ![Len(stack)].step = "awaiting"],
                       Enter("subgraph", Top.pool_metadata[1].base_pool,
                             Some(Top.end_ts)))
    /\ UNCHANGED <<pc, request, now, result, data, http, invoked, gvars>>

resolve ==
    /\ \/ Running("subgraph", "branch") /\ ~Top.pool_metadata[1].metapool
       \/ Running("subgraph", "build")
    /\ LET r == SubgraphSnapshot(Top.address, request.chain, Top.end_ts,
                                 Top.pool_metadata[1], Top.latest_snapshot[1],
                                 Top.latest_balances[1], Top.basepool)
       IN  IF r.ok THEN Return(r.data) ELSE Raise(r.error)
    /\ UNCHANGED <<request, now, data, http, invoked, gvars>>

----------------------------------------------------------------------------
(* metadata.py: from_address, get_metadata and _validate_metadata *)

\* n[1:] on the symbols the providers report
DropFirst(name) ==
    CASE name = "0xeeee" -> "xeeee"
      [] name = "ETH" -> "TH"
      [] name = "DAI" -> "AI"
      [] name = "USDC" -> "SDC"
      [] name = "USDT" -> "SDT"
      [] name = "FRAX" -> "RAX"
      [] name = "LUSD" -> "USD"
      [] OTHER -> name

\* underlying_coin_info_sync: the tokens the wrappers hold
Underlying(coins) ==
    [addresses |-> [i \in DOMAIN coins.addresses |->
                        [coins.addresses[i] EXCEPT !.hex = @ + 1000]],
     decimals |-> coins.decimals]

\* lines 43-57
WithUnderlying(d) ==
    IF d.pool_type = "LENDING"
    THEN [d EXCEPT !.coins =
            [names |-> [i \in DOMAIN d.coins.names |-> DropFirst(d.coins.names[i])],
             addresses |-> Underlying(d.coins).addresses,
             decimals |-> Underlying(d.coins).decimals,
             wrapper |-> d.coins]]
    ELSE d

\* lines 104-112
ValidatedCoins(coins) ==
    [coins EXCEPT
        !.addresses = [i \in DOMAIN coins.addresses |->
                          IF coins.addresses[i] = SENTINEL THEN WETH
                          ELSE coins.addresses[i]],
        !.names = [i \in DOMAIN coins.names |->
                          IF coins.names[i] = "0xeeee" THEN "WETH"
                          ELSE coins.names[i]]]

\* lines 35-37: the subgraph is tried first
from_address ==
    /\ pc = "start"
    /\ stack' = <<Enter("subgraph", request.address, request.end_ts)>>
    /\ invoked' = [invoked EXCEPT !.subgraph =
                      Some(Arguments(Enter("subgraph", request.address,
                                           request.end_ts)))]
    /\ pc' = "subgraph"
    /\ UNCHANGED <<request, now, result, data, http, gvars>>

\* lines 38-41: any exception of the subgraph call leads to Curve Prices,
\* which reads the clock (line 178) up to MaxTicks seconds after the
\* subgraph did when no end_ts is given
from_address_except ==
    /\ pc = "except"
    /\ \E elapsed \in 0..MaxTicks :
          now' = IF request.end_ts = None THEN now + elapsed ELSE now
    /\ stack' = <<EnterAt(now', "curve_prices", request.address,
                          request.end_ts)>>
    /\ invoked' = [invoked EXCEPT !.curve_prices =
                      Some(Arguments(EnterAt(now', "curve_prices",
                                             request.address, request.end_ts)))]
    /\ result' = None      \* the exception is logged and dropped
    /\ pc' = "curve_prices"
    /\ UNCHANGED <<request, data, http, gvars>>

\* lines 43-57
from_address_return ==
    /\ pc = "fetched"
    /\ data' = WithUnderlying(result.data)
    /\ pc' = "returned"
    /\ UNCHANGED <<request, now, stack, result, http, invoked, gvars>>

\* lines 98-101
get_metadata ==
    /\ pc = "returned"
    /\ data' = [data EXCEPT !.coins = ValidatedCoins(data.coins)]
    /\ pc' = "validated"
    /\ UNCHANGED <<request, now, stack, result, http, invoked, gvars>>

----------------------------------------------------------------------------
(* grid.py: the parameter grid sampler *)

RECURSIVE Concat(_)
Concat(lists) ==
    IF lists = << >> THEN << >> ELSE Head(lists) \o Concat(Tail(lists))

\* [dict(zip(keys, instance)) for instance in product(*vals)], for the
\* key/values pairs of a dict in insertion order
RECURSIVE Product(_)
Product(pairs) ==
    IF pairs = << >> THEN << << >> >>
    ELSE LET rest == Product(Tail(pairs))
         IN  Concat([i \in DOMAIN Head(pairs).vals |->
                        [j \in DOMAIN rest |->
                            (Head(pairs).key :> Head(pairs).vals[i]) @@ rest[j]]])

\* lines 31-55
param_product(p_dict) ==
    LET grid == Product(p_dict.params)
    IN  IF p_dict.basepool # None /\ p_dict.basepool[1] # << >>
        THEN LET base == Product(p_dict.basepool[1])
             IN  Concat([i \in DOMAIN grid |->
                            [j \in DOMAIN base |->
                                ("basepool" :> base[j]) @@ grid[i]]])
        ELSE grid

\* x = [D // n * 10**18 // _p for _p in p], with each _p = 10**e held as e
Balances(D, n, p) ==
    [i \in DOMAIN p |->
        IF p[i] <= 18 THEN ((D \div n) * 10 ^ (18 - p[i]))
        ELSE (D \div n) \div (10 ^ (p[i] - 18))]

\* lines 62-85 for the keys other than "basepool"
SetOwn(pool, attribute_dict) ==
    LET keys == DOMAIN attribute_dict \ {"basepool"}
        plain == keys \ {"D"}
        set == [k \in plain |-> attribute_dict[k]] @@ pool
    IN  IF "D" \in keys
        THEN [set EXCEPT !["x"] = Balances(attribute_dict["D"], pool["n"],
                                           pool["p"])]
        ELSE set

\* lines 57-85; no swept key changes n or p, so the order of the items is
\* immaterial
set_attributes(pool, attribute_dict) ==
    IF attribute_dict = None THEN pool
    ELSE LET own == SetOwn(pool, attribute_dict[1])
         IN  IF "basepool" \in DOMAIN attribute_dict[1]
             THEN [own EXCEPT !["basepool"] =
                      SetOwn(pool["basepool"], attribute_dict[1]["basepool"])]
             ELSE own

\* lines 23-27 applied to one dict of the list
Flattened(params) ==
    IF "basepool" \in DOMAIN params
    THEN LET basepool == params["basepool"]
             rest == [k \in DOMAIN params \ {"basepool"} |-> params[k]]
             suffixed == {key \o "_base" : key \in DOMAIN basepool}
         IN  IF DOMAIN basepool # {}
             THEN [kb \in suffixed |->
                      basepool[CHOOSE key \in DOMAIN basepool :
                                  key \o "_base" = kb]] @@ rest
             ELSE rest
    ELSE params

\* the dicts a list of references holds
Deref(list) == [i \in DOMAIN list |-> dicts[list[i]]]

\* lines 21-29: the copy of the list shares the dicts with param_grid
flat_grid ==
    /\ dicts # << >>
    /\ flat' = Some(param_grid)
    /\ dicts' = [r \in DOMAIN dicts |->
                    IF \E i \in DOMAIN param_grid : param_grid[i] = r
                    THEN Flattened(dicts[r]) ELSE dicts[r]]
    /\ UNCHANGED <<pool_template, param_grid, position, yielded, built, rvars>>

\* lines 15-19
__next__ ==
    /\ position < Len(param_grid)
    /\ position' = position + 1
    /\ yielded' = Append(yielded,
                    [pool |-> set_attributes(pool_template,
                                  Some(dicts[param_grid[position + 1]])),
                     params |-> dicts[param_grid[position + 1]]])
    /\ UNCHANGED <<pool_template, dicts, param_grid, flat, built, rvars>>

\* the pools a Grid is built around: a metapool and its base pool
Pool ==
    ("A" :> 100) @@ ("fee" :> 4) @@ ("n" :> 2) @@ ("p" :> <<18, 19>>) @@
    ("x" :> <<50, 5>>) @@
    ("basepool" :>
        (("A" :> 1000) @@ ("fee" :> 1) @@ ("n" :> 3) @@ ("p" :> <<18, 18, 20>>) @@
         ("x" :> <<7, 7, 7>>)))

Values(key) ==
    [i \in 1..MaxVals |-> IF key = "D" THEN 2003 + 1002 * i ELSE 50 + 100 * i]

\* a list of 1..MaxVals values for each of the keys, in the given order
Sweeps(keys) ==
    { [i \in DOMAIN keys |->
          [key |-> keys[i], vals |-> SubSeq(Values(keys[i]), 1, len[i])]] :
      len \in [DOMAIN keys -> 1..MaxVals] }

KeyLists == { <<"A">>, <<"D">>, <<"A", "D">> }

VariableParams ==
    { [params |-> ps, basepool |-> bp] :
        ps \in UNION { Sweeps(keys) : keys \in KeyLists },
        bp \in {None} \cup
               { Some(b) : b \in UNION { Sweeps(keys) : keys \in KeyLists } } }

FixedParams == { None, Some("fee" :> 3), Some("basepool" :> ("fee" :> 2)) }

\* lines 6-10
GridInit ==
    \E variable_params \in VariableParams, fixed_params \in FixedParams :
        /\ pool_template = set_attributes(Pool, fixed_params)
        /\ dicts = param_product(variable_params)
        /\ param_grid = [i \in DOMAIN dicts |-> i]
        /\ position = 0
        /\ yielded = << >>
        /\ flat = None
        /\ built = dicts

ResolverIdle ==
    /\ pc = "idle"
    /\ request = << >>
    /\ now = ClockStart
    /\ stack = << >>
    /\ result = None
    /\ data = << >>
    /\ http = None
    /\ invoked = << >>

GridStart == GridInit /\ ResolverIdle

GridNext ==
    \/ flat_grid
    \/ __next__

GridSpec == GridStart /\ [][GridNext]_vars

----------------------------------------------------------------------------
(* The resolution of one pool *)

GridIdle ==
    /\ pool_template = << >>
    /\ dicts = << >>
    /\ param_grid = << >>
    /\ position = 0
    /\ yielded = << >>
    /\ flat = None
    /\ built = << >>

Init ==
    /\ pc = "start"
    /\ request \in [address : {PoolAddress(0)},
                    chain : Chains,
                    end_ts : {None, Some(GivenEndTs)}]
    /\ now = ClockStart
    /\ stack = << >>
    /\ result = None
    /\ data = << >>
    /\ http = None
    /\ invoked = [subgraph |-> None, curve_prices |-> None]
    /\ GridIdle

Next ==
    \/ from_address
    \/ fetchMetadata
    \/ fetchParameters
    \/ fetchBalances
    \/ resolveBasePool
    \/ resolve
    \/ from_address_except
    \/ _pool_metadata
    \/ _pool_parameters
    \/ _pool_balances
    \/ pool_snapshot_basepool
    \/ pool_snapshot
    \/ from_address_return
    \/ get_metadata

Spec == Init /\ [][Next]_vars

----------------------------------------------------------------------------
(* Properties *)

FromCurvePrices ==
    pc = "fetched" /\ result.provider = "curve_prices"

\* the dictionary a pool_snapshot invocation has just handed to its caller
Delivered == IF stack = << >> THEN result.data ELSE Top.basepool[1]

\* a step in which the Curve Prices pool_snapshot on top of the stack returns
Returns ==
    /\ stack # << >>
    /\ Top.provider = "curve_prices"
    /\ Len(stack') = Len(stack) - 1
    /\ pc' # "raised"

\* C1: when the subgraph attempt fails, Curve Prices is invoked with the
\* same (address, chain, startTs, endTs) as the subgraph was, and the
\* returned snapshot is built from Curve Prices answers only.
C1_FallbackSameArguments ==
    /\ (pc \in {"curve_prices", "fetched", "raised"}
            /\ invoked.curve_prices # None)
          => invoked.curve_prices = invoked.subgraph
    /\ FromCurvePrices => result.data.providers = {"curve_prices"}

\* C2: after the subgraph attempt fails with the unsupported-family error,
\* no fallback to Curve Prices is made.
C2_NoFallbackWhenUnsupported ==
    [][(pc = "except" /\ result.error = "UnsupportedPoolFamily")
          => pc' # "curve_prices"]_vars

\* C3: for every pool_type that maps to neither stableswap nor cryptoswap,
\* listed in the table or not, pool_snapshot raises ApiResultError and
\* returns nothing.
C3_UnsupportedRaisesApiResultError ==
    [][(/\ stack # << >>
        /\ Top.provider = "curve_prices"
        /\ Top.step \in {"branch", "build"}
        /\ Top.pool_metadata[1].pool_type \notin
              {"main", "factory", "stableswapng", "crypto", "factory_crypto",
               "factory_tricrypto", "twocryptong"}
        /\ stack' # stack)
          => (pc' = "raised" /\ result'.error = "ApiResultError")]_vars

RECURSIVE SameLengths(_)
SameLengths(d) ==
    /\ Len(d.coins.names) = Len(d.coins.addresses)
    /\ Len(d.coins.names) = Len(d.coins.decimals)
    /\ Len(d.coins.names) = Len(d.reserves.by_coin)
    /\ Len(d.coins.names) = Len(d.reserves.unnormalized_by_coin)
    /\ d.basepool # None => SameLengths(d.basepool[1])

\* C4: in every snapshot pool_snapshot returns, and in every base pool
\* nested in it, the three coin lists and the two reserve lists have one
\* length.
C4_ParallelLists ==
    FromCurvePrices => SameLengths(result.data)

RECURSIVE WellNested(_)
WellNested(d) ==
    d.basepool # None =>
        /\ Len(d.coins.names) = 2
        /\ Len(d.coins.addresses) = 2
        /\ Len(d.coins.decimals) = 2
        /\ DOMAIN d.basepool[1].params # {}
        /\ d.basepool[1].timestamp = d.timestamp
        /\ WellNested(d.basepool[1])

C5_Returned ==
    Returns =>
        LET d == Delivered'
            m == Top.pool_metadata[1]
        IN  /\ (d.basepool # None) <=> m.metapool
            /\ d.timestamp = Top.end_ts
            /\ m.metapool =>
                /\ d.coins.names = <<m.coins[1].symbol, m.coins[2].symbol>>
                /\ d.coins.decimals = <<m.coins[1].decimals, m.coins[2].decimals>>
                /\ d.coins.addresses =
                      <<to_checksum_address(m.coins[1].address),
                        to_checksum_address(m.coins[2].address)>>
                /\ d.basepool = Top.basepool
                /\ d.basepool[1].timestamp = d.timestamp

C5_BasePoolFailure ==
    (stack # << >> /\ Top.provider = "curve_prices" /\ pc' = "raised")
        => (stack' = << >> /\ ~result'.ok /\ data' = << >>)

C6_ValidationRewrites ==
    [][(pc = "returned" /\ pc' = "validated") =>
        /\ \A i \in DOMAIN data.coins.addresses :
              IF data.coins.addresses[i] = SENTINEL
              THEN /\ data'.coins.addresses[i] = WETH
                   /\ data'.coins.names[i] = "WETH"
              ELSE /\ data'.coins.addresses[i] = data.coins.addresses[i]
                   /\ data'.coins.names[i] = data.coins.names[i]
        /\ data'.coins.decimals = data.coins.decimals
        /\ data'.reserves = data.reserves
        /\ data'.basepool = data.basepool]_vars

RECURSIVE Labels(_)
Labels(d) ==
    {d.chain} \cup (IF d.basepool = None THEN {} ELSE Labels(d.basepool[1]))

CanonicalChain ==
    CASE request.chain \in {"mainnet", "ethereum"} -> "ethereum"
      [] request.chain \in {"matic", "polygon"} -> "polygon"
      [] OTHER -> request.chain

UrlsCanonical ==
    (pc # "idle" /\ http # None) => http[1].chain = CanonicalChain

\* C7 as stated: URLs carry the canonical chain and the snapshot is labelled
\* with the chain exactly as the caller supplied it.
C7_LabelAsSupplied ==
    /\ UrlsCanonical
    /\ FromCurvePrices => Labels(result.data) = {request.chain}

\* C7 as amended: URLs carry the canonical chain and the snapshot is
\* labelled with the alias of the chain whenever the chain has one
\* ("mainnet" for mainnet and ethereum, "matic" for matic and polygon), and
\* with the supplied identifier otherwise.
C7_LabelIsAlias ==
    /\ UrlsCanonical
    /\ FromCurvePrices =>
          Labels(result.data) =
             { CASE request.chain \in {"mainnet", "ethereum"} -> "mainnet"
                 [] request.chain \in {"matic", "polygon"} -> "matic"
                 [] OTHER -> request.chain }

C7_Witness ==
    /\ FromCurvePrices
    /\ request.chain = "ethereum"
    /\ result.data.chain = "mainnet"
    /\ http[1].chain = "ethereum"
    /\ result.data.basepool # None

StableswapFields == {"A", "fee", "fee_mul", "admin_fee", "virtual_price"}

CryptoswapFields ==
    {"A", "gamma", "fee_gamma", "mid_fee", "out_fee", "allowed_extra_profit",
     "adjustment_step", "ma_half_time", "price_scale", "price_oracle",
     "last_prices", "last_prices_timestamp", "admin_fee", "xcp_profit",
     "xcp_profit_a", "virtual_price"}

ParamsDetermined(count) ==
    Returns =>
        LET d == Delivered'
            row == Top.latest_snapshot[1]
        IN  /\ d.pool_type \in {"main", "factory", "stableswapng"} =>
                /\ DOMAIN d.params = StableswapFields
                /\ (d.params.fee_mul = None) <=>
                      (row.offpeg_fee_multiplier = None)
            /\ d.pool_type \in {"crypto", "factory_crypto",
                                "factory_tricrypto", "twocryptong"} =>
                /\ DOMAIN d.params = CryptoswapFields
                /\ Cardinality(DOMAIN d.params) = count
            /\ d.pool_type \in {"main", "factory", "stableswapng", "crypto",
                                "factory_crypto", "factory_tricrypto",
                                "twocryptong"}

\* C8 as stated: the params of a returned snapshot are the five stableswap
\* fields or the 14 cryptoswap fields, as pool_type decides, and fee_mul is
\* None exactly when the row has no off-peg fee multiplier.
C8_FourteenFields == [][ParamsDetermined(14)]_vars

\* C8 as amended: the params of a returned snapshot are the five stableswap
\* fields or the 16 cryptoswap fields, as pool_type decides, and fee_mul is
\* None exactly when the row has no off-peg fee multiplier.
C8_SixteenFields == [][ParamsDetermined(16)]_vars

C8_Witness ==
    /\ FromCurvePrices
    /\ result.data.pool_type = "twocryptong"
    /\ Cardinality(DOMAIN result.data.params) = 16

\* a step that issues an HTTP request
Issues == http' # http

C9_Order ==
    Issues =>
        /\ stack # << >>
        /\ http'[1].provider = Top.provider
        /\ http'[1].kind = Top.step
        /\ http'[1].address = to_checksum_address(Top.address)
        /\ pc = Top.provider
        /\ http'[1].kind = "parameters" =>
              /\ http[1].kind = "metadata"
              /\ http[1].provider = http'[1].provider
              /\ http[1].address = http'[1].address
        /\ http'[1].kind = "balances" =>
              /\ http[1].kind = "parameters"
              /\ http[1].provider = http'[1].provider
              /\ http[1].address = http'[1].address
        /\ (http'[1].kind = "metadata" /\ http # None) =>
              \/ /\ http[1].kind = "balances"
                 /\ http[1].provider = http'[1].provider
                 /\ Len(stack) > 1
              \/ /\ http[1].provider = "subgraph"
                 /\ http'[1].provider = "curve_prices"
                 /\ Len(stack) = 1

C9_Fallback ==
    /\ (pc' = "curve_prices" /\ pc # "curve_prices") =>
          /\ pc = "except"
          /\ stack = << >>
          /\ ~result.ok
          /\ result.provider = "subgraph"
          /\ invoked.curve_prices = None
    /\ invoked.curve_prices # None => invoked' = invoked
    /\ (pc \in {"fetched", "returned", "validated"}) =>
          /\ pc' \notin {"subgraph", "except", "curve_prices"}
          /\ http' = http
    /\ pc # "raised"

C9_State ==
    /\ \A i \in DOMAIN stack : stack[i].provider = pc
    /\ (pc = "fetched" /\ result.provider = "subgraph") =>
          /\ invoked.curve_prices = None
          /\ http[1].provider = "subgraph"
    /\ pc = "raised" =>
          /\ ~result.ok
          /\ result.provider = "curve_prices"
          /\ data = << >>
          /\ stack = << >>

\* C9: Curve Prices is contacted only after the subgraph attempt has failed;
\* each attempt issues metadata, parameters, balances in that order and stops
\* at the first failure; fallback happens once; a Curve Prices failure ends
\* the resolution with no snapshot.
C9_Sequential ==
    /\ []C9_State
    /\ [][C9_Order /\ C9_Fallback]_vars

C9_Witness ==
    /\ pc = "raised"
    /\ http[1].provider = "curve_prices"
    /\ http[1].kind = "balances"
    /\ invoked.subgraph # None
    /\ invoked.curve_prices # None

\* C10: flat_grid leaves param_grid as __init__ built it, so iteration
\* yields the params and the pools it would have yielded without the call.
C10_FlatGridPure ==
    /\ Deref(param_grid) = built
    /\ \A i \in DOMAIN yielded :
          /\ yielded[i].params = built[i]
          /\ yielded[i].pool = set_attributes(pool_template, Some(built[i]))

====
